---- MODULE Spec2Model ----
(***************************************************************************)
(* A model of the dscribe descriptors: SOAP.create (batch orchestration),  *)
(* SOAP.get_full_space_output (element-space remapping) and                *)
(* MatrixDescriptor (permutation handling and zero padding).               *)
(*                                                                         *)
(* Python lists and numpy arrays are sequences; indices are 0-based in the *)
(* source and 1-based in the sequences, so list index i is element i + 1.  *)
(***************************************************************************)
EXTENDS Integers, Sequences, FiniteSets, TLC

\* Python's None where a string is expected (an error, a state).
None == "None"

\* An optional argument: None, or the value given.
NotGiven == [given |-> FALSE, value |-> <<>>]

Given(v) == [given |-> TRUE, value |-> v]

Min(a, b) == IF a <= b THEN a ELSE b

Max(a, b) == IF a >= b THEN a ELSE b

\* The sequences of length 0..n over the set S.
SeqsUpTo(S, n) == UNION {[1..k -> S] : k \in 0..n}

RECURSIVE Concat(_)
\* The concatenation of a sequence of sequences, first to last.
Concat(ss) == IF ss = <<>> THEN <<>> ELSE Head(ss) \o Concat(Tail(ss))

RECURSIVE SumSeq(_)
SumSeq(s) == IF s = <<>> THEN 0 ELSE Head(s) + SumSeq(Tail(s))

\* Python's s[a:b] for 0 <= a, 0 <= b: both ends are clamped to len(s).
PySlice(s, a, b) ==
    LET lo == Min(a, Len(s))
        hi == Min(b, Len(s))
    IN IF hi <= lo THEN <<>> ELSE SubSeq(s, lo + 1, hi)

(***************************************************************************)
(* Bounds of the model.                                                    *)
(***************************************************************************)
\* The longest batch of systems (and the longest positions list).
MaxSystems == 3
\* The largest n_jobs.
MaxJobs == 3
\* The largest n_atoms_max, and the largest matrix get_matrix returns.
MaxAtoms == 2
\* The largest matrix sort is applied to on its own.
MaxSortSize == 3

(***************************************************************************)
(* SOAP.create: the batch orchestrator.                                    *)
(***************************************************************************)
VARIABLES
    pc,               \* "ready" | "running" | "returned" | "raised"
    call,             \* the arguments of create: system, positions, n_jobs
    average,          \* self._average
    inp,              \* the combined input arguments
    jobs,             \* the chunks create forms to size the outputs
    output_sizes,     \* the precomputed row count of every chunk
    chunks,           \* the chunks create_parallel hands to the workers
    workers,          \* per chunk: "pending" or the worker's outcome
    completionOrder,  \* the chunk numbers in the order the workers finished
    result,           \* the rows create returns
    err               \* the error create raises

createVars == <<pc, call, average, inp, jobs, output_sizes, chunks, workers,
                completionOrder, result, err>>

\* The atomic structures of the model: len(system) is the number of atoms.
SystemCatalogue == {[name |-> "a", natoms |-> 1], [name |-> "b", natoms |-> 3]}

\* The positions a caller gives for one system: None, an empty list, or a
\* list of points (each point named by a number).
PositionChoices == {NotGiven, Given(<<>>), Given(<<7, 8>>)}

\* A row of the output.  Its numeric content is soaplite's; the row is
\* identified by the system and the atom or point it was computed for, and an
\* averaged row by all the rows it is the mean of.
Row(system, sources, mean) == [sys |-> system.name, mean |-> mean, src |-> sources]

\* A row of preallocated storage that was never written.
Uninitialized == [sys |-> "?", mean |-> FALSE, src |-> <<>>]

\* One worker's slot before the worker has finished.
Pending == [ok |-> FALSE, rows |-> <<>>, error |-> "pending"]

\* create_single's rows for one (system, positions) job: one per position,
\* or one per atom, or their mean.  An empty positions list is refused.
CreateSingle(system, positions, avg) ==
    IF positions.given /\ Len(positions.value) = 0
    THEN [ok |-> FALSE, rows |-> <<>>, error |-> "ValueError: empty positions"]
    ELSE LET soap_mat ==
                 IF positions.given
                 THEN [p \in 1..Len(positions.value) |-> <<"pos", positions.value[p]>>]
                 ELSE [a \in 1..system.natoms |-> <<"atom", a>>]
         IN [ok |-> TRUE,
             rows |-> IF avg THEN <<Row(system, soap_mat, TRUE)>>
                      ELSE [r \in 1..Len(soap_mat) |-> Row(system, <<soap_mat[r]>>, FALSE)],
             error |-> None]

\* A validation that only refuses a positions list that is too long.
PositionsTooMany(n_pos, n_samples) == n_pos > n_samples

\* n_pos != n_samples
PositionsMismatch(n_pos, n_samples) == n_pos /= n_samples

\* inp: [(i_sys,) for i_sys in system], or list(zip(system, positions)), which
\* stops at the shorter of the two.  idx is the job's index in the list.
CombineInput(system, positions) ==
    IF ~positions.given
    THEN [i \in 1..Len(system) |-> [idx |-> i - 1, args |-> <<system[i]>>]]
    ELSE [i \in 1..Min(Len(system), Len(positions.value)) |->
             [idx |-> i - 1, args |-> <<system[i], positions.value[i]>>]]

\* A split that forgets the n mod n_jobs jobs left over.
ChunkStartNoRemainder(i, k, m) == i * k

\* The first index of chunk i (0-based): i * k + min(i, m).
ChunkStart(i, k, m) == i * k + Min(i, m)

\* k, m = divmod(n_samples, n_jobs);
\* jobs = (inp[i*k + min(i, m):(i+1)*k + min(i+1, m)] for i in range(n_jobs))
SplitJobs(input, n_samples, n_jobs) ==
    LET k == n_samples \div n_jobs
        m == n_samples % n_jobs
    IN [c \in 1..n_jobs |->
           PySlice(input, ChunkStart(c - 1, k, m), ChunkStart(c, k, m))]

\* A sizing that counts only the positions of a job: none when its entry is
\* None.
JobSizePositionsOnly(job) ==
    IF job.args[2].given THEN Len(job.args[2].value) ELSE 0

\* n_desc of one job of a chunk when positions were given to create.
JobSizeWithPositions(job) ==
    IF job.args[2].given THEN Len(job.args[2].value) ELSE job.args[1].natoms

\* A sizing that forgets that an averaged job has one row.
ChunkOutputSizeNoAverage(i_job, avg, positions) ==
    IF ~positions.given
    THEN SumSeq([j \in 1..Len(i_job) |-> i_job[j].args[1].natoms])
    ELSE SumSeq([j \in 1..Len(i_job) |-> JobSizeWithPositions(i_job[j])])

\* n_desc of a chunk.
ChunkOutputSize(i_job, avg, positions) ==
    IF avg THEN Len(i_job)
    ELSE IF ~positions.given
    THEN SumSeq([j \in 1..Len(i_job) |-> i_job[j].args[1].natoms])
    ELSE SumSeq([j \in 1..Len(i_job) |-> JobSizeWithPositions(i_job[j])])

OutputSizes(js, avg, positions) ==
    [c \in 1..Len(js) |-> ChunkOutputSize(js[c], avg, positions)]

\* func(*i_arg): create_single on one job's arguments.
RunJob(job, avg) ==
    IF Len(job.args) = 1 THEN CreateSingle(job.args[1], NotGiven, avg)
    ELSE CreateSingle(job.args[1], job.args[2], avg)

\* create_parallel's split of the input into n_jobs chunks: chunkSize =
\* n / concurrency, the first n mod concurrency chunks get one item more.
ParallelChunks(input, n_jobs) ==
    LET n == Len(input)
        k == n \div n_jobs
        m == n % n_jobs
    IN [c \in 1..n_jobs |->
           SubSeq(input, (c - 1) * k + Min(c - 1, m) + 1, c * k + Min(c, m))]

\* One worker: the rows of its chunk's jobs, in order, written into storage
\* preallocated with n_desc rows.  A job that fails fails the worker; rows
\* past the storage fail it; storage never written keeps what it held.
WorkerOutcome(chunk, n_desc, avg) ==
    LET outs == [j \in 1..Len(chunk) |-> RunJob(chunk[j], avg)]
        bad == {j \in 1..Len(chunk) : ~outs[j].ok}
        rows == Concat([j \in 1..Len(chunk) |-> outs[j].rows])
    IN IF bad /= {}
       THEN [ok |-> FALSE, rows |-> <<>>,
             error |-> outs[CHOOSE j \in bad : \A o \in bad : j <= o].error]
       ELSE IF Len(rows) > n_desc
       THEN [ok |-> FALSE, rows |-> <<>>, error |-> "ValueError: output size"]
       ELSE [ok |-> TRUE,
             rows |-> rows \o [r \in 1..(n_desc - Len(rows)) |-> Uninitialized],
             error |-> None]

\* The join: the chunk outputs in chunk order, whatever order they came in.
JoinRows(ws) == Concat([c \in 1..Len(ws) |-> ws[c].rows])

CreateCalls ==
    [batch : {FALSE}, system : SystemCatalogue, positions : PositionChoices,
     n_jobs : 0..MaxJobs]
    \cup
    [batch : {TRUE}, system : SeqsUpTo(SystemCatalogue, MaxSystems),
     positions : {NotGiven} \cup {Given(l) : l \in SeqsUpTo(PositionChoices, MaxSystems)},
     n_jobs : 0..MaxJobs]

CreateIdle ==
    /\ inp = <<>>
    /\ jobs = <<>>
    /\ output_sizes = <<>>
    /\ chunks = <<>>
    /\ workers = <<>>
    /\ completionOrder = <<>>
    /\ result = <<>>
    /\ err = None

CreateInit ==
    /\ pc = "ready"
    /\ call \in CreateCalls
    /\ average \in BOOLEAN
    /\ CreateIdle

\* create on a single system: create_single, no partitioning.
CreateOne ==
    /\ pc = "ready"
    /\ ~call.batch
    /\ LET out == CreateSingle(call.system, call.positions, average)
       IN /\ pc' = IF out.ok THEN "returned" ELSE "raised"
          /\ result' = out.rows
          /\ err' = out.error
    /\ UNCHANGED <<call, average, inp, jobs, output_sizes, chunks, workers,
                   completionOrder>>

\* create on a batch whose positions list does not match the systems.
CreateRefuse ==
    /\ pc = "ready"
    /\ call.batch
    /\ call.positions.given
    /\ PositionsMismatch(Len(call.positions.value), Len(call.system))
    /\ pc' = "raised"
    /\ err' = "ValueError: positions do not match systems"
    /\ UNCHANGED <<call, average, inp, jobs, output_sizes, chunks, workers,
                   completionOrder, result>>

\* create on a batch with n_jobs = 0: divmod(n_samples, 0) raises.
CreateZeroJobs ==
    /\ pc = "ready"
    /\ call.batch
    /\ \/ ~call.positions.given
       \/ ~PositionsMismatch(Len(call.positions.value), Len(call.system))
    /\ call.n_jobs = 0
    /\ inp' = CombineInput(call.system, call.positions)
    /\ pc' = "raised"
    /\ err' = "ZeroDivisionError"
    /\ UNCHANGED <<call, average, jobs, output_sizes, chunks, workers,
                   completionOrder, result>>

\* create on a batch: combine the arguments, size the chunks' outputs and
\* hand the chunks to the workers.
CreateDispatch ==
    /\ pc = "ready"
    /\ call.batch
    /\ call.n_jobs >= 1
    /\ \/ ~call.positions.given
       \/ ~PositionsMismatch(Len(call.positions.value), Len(call.system))
    /\ LET input == CombineInput(call.system, call.positions)
           js == SplitJobs(input, Len(call.system), call.n_jobs)
       IN /\ inp' = input
          /\ jobs' = js
          /\ output_sizes' = OutputSizes(js, average, call.positions)
          /\ chunks' = ParallelChunks(input, call.n_jobs)
          /\ workers' = [c \in 1..call.n_jobs |-> Pending]
    /\ pc' = "running"
    /\ UNCHANGED <<call, average, completionOrder, result, err>>

\* The worker of chunk c finishes.
WorkerFinish(c) ==
    /\ pc = "running"
    /\ workers[c] = Pending
    /\ workers' = [workers EXCEPT ![c] = WorkerOutcome(chunks[c], output_sizes[c], average)]
    /\ completionOrder' = Append(completionOrder, c)
    /\ UNCHANGED <<pc, call, average, inp, jobs, output_sizes, chunks, result, err>>

\* Every worker has finished: a failed worker fails the batch, else the chunk
\* outputs are concatenated.
CreateJoin ==
    /\ pc = "running"
    /\ \A c \in 1..Len(workers) : workers[c] /= Pending
    /\ LET failed == {c \in 1..Len(workers) : ~workers[c].ok}
       IN IF failed /= {}
          THEN /\ pc' = "raised"
               /\ err' = workers[CHOOSE c \in failed : \A o \in failed : c <= o].error
               /\ result' = result
          ELSE /\ pc' = "returned"
               /\ result' = JoinRows(workers)
               /\ err' = err
    /\ UNCHANGED <<call, average, inp, jobs, output_sizes, chunks, workers,
                   completionOrder>>

(***************************************************************************)
(* SOAP.get_full_space_output: the element-space remapper.                 *)
(***************************************************************************)
\* The chemical species a descriptor may be set up with are the first
\* MaxSpecies atomic numbers of ElementTable.
MaxSpecies == 3
\* The largest nmax (number of radial basis functions).
MaxNmax == 2
\* The largest lmax (maximum degree of spherical harmonics).
MaxLmax == 1
\* The largest number of rows (positions) of a sub-space output.
MaxPoints == 2

ElementTable == <<1, 6, 8, 7, 9, 14, 16, 17>>

Elements == {ElementTable[e] : e \in 1..MaxSpecies}

VARIABLES
    atomic_numbers,   \* self._atomic_numbers: the species, sorted
    nmax,             \* self._nmax
    lmax,             \* self._lmax
    crossover,        \* self._crossover
    sub_elements,     \* the elements present in the system, in any order
    sub_output,       \* soaplite's output over the elements of the system
    full_output,      \* the output get_full_space_output returns
    written,          \* the columns of the output that were assigned
    remap_pc          \* "ready" | "returned" | "raised"

remapVars == <<atomic_numbers, nmax, lmax, crossover, sub_elements, sub_output,
               full_output, written, remap_pc>>

RECURSIVE SortAscending(_)
\* np.sort of a list without repeated values.
SortAscending(s) ==
    IF s = <<>> THEN <<>>
    ELSE LET least == CHOOSE i \in 1..Len(s) : \A o \in 1..Len(s) : s[i] <= s[o]
         IN <<s[least]>> \o SortAscending(SubSeq(s, 1, least - 1) \o SubSeq(s, least + 1, Len(s)))

\* The orderings of a finite set as sequences without repetition.
Orderings(S) ==
    {q \in [1..Cardinality(S) -> S] : \A a, b \in 1..Cardinality(S) : a /= b => q[a] /= q[b]}

\* int((lmax + 1) * nmax * (nmax + 1) / 2)
GetNumberOfElementFeatures(l_max, n_max) == ((l_max + 1) * n_max * (n_max + 1)) \div 2

\* A flattening that counts one element too few below the diagonal.
GetFlattenedIndexOffByOne(i, j, n) == j + i * n - (i * (i - 1)) \div 2

\* int(j + i*n - i*(i+1)/2): i * (i + 1) is even, the division is exact.
GetFlattenedIndex(i, j, n) == j + i * n - (i * (i + 1)) \div 2

\* n_blocks: n_elems * (n_elems + 1) / 2 with crossover, else n_elems.
NumberOfBlocks(n_elems, cross) ==
    IF cross THEN (n_elems * (n_elems + 1)) \div 2 ELSE n_elems

\* SOAP.get_number_of_features
SoapNumberOfFeatures(numbers, l_max, n_max, cross) ==
    GetNumberOfElementFeatures(l_max, n_max) * NumberOfBlocks(Len(numbers), cross)

\* A map that takes the sub-elements in the order given, unsorted.
GetSubToFullMapUnsorted(sub, full) ==
    LET full_elements_sorted == SortAscending(full)
    IN [i_sub \in 1..Len(sub) |->
           (CHOOSE i_full \in 1..Len(full_elements_sorted) :
                full_elements_sorted[i_full] = sub[i_sub]) - 1]

\* mapping[i_sub] = i_full: the index (0-based) in the sorted full elements of
\* the i_sub'th sorted sub-element; position i_sub + 1 of the sequence.
GetSubToFullMap(sub, full) ==
    LET sub_elements_sorted == SortAscending(sub)
        full_elements_sorted == SortAscending(full)
    IN [i_sub \in 1..Len(sub_elements_sorted) |->
           (CHOOSE i_full \in 1..Len(full_elements_sorted) :
                full_elements_sorted[i_full] = sub_elements_sorted[i_sub]) - 1]

\* An entry of a SOAP output: zero, or the value soaplite computed for row
\* `point`, the pair of elements `pair` and the feature `f` of that pair.
Zero == [pair |-> <<0, 0>>, f |-> 0, point |-> 0]

Entry(z1, z2, f, point) == [pair |-> <<z1, z2>>, f |-> f, point |-> point]

\* The (i, j) of the loops, i <= j, in the order the loops visit them.
UpperPairs(k) ==
    Concat([i \in 1..k |-> [d \in 1..(k - i + 1) |-> <<i - 1, i - 1 + d - 1>>]])

\* soaplite's output for a system: one block of n_elem_features columns per
\* pair (i <= j) of the sorted elements present with crossover, per element
\* without, in the order an upper triangular matrix is read left to right and
\* top to bottom.
SoapliteOutput(sub, n_elem_features, n_points, cross) ==
    LET sorted == SortAscending(sub)
        blocks == IF cross THEN UpperPairs(Len(sorted))
                  ELSE [i \in 1..Len(sorted) |-> <<i - 1, i - 1>>]
    IN [r \in 1..n_points |->
           Concat([b \in 1..Len(blocks) |->
                      [f \in 1..n_elem_features |->
                          Entry(sorted[blocks[b][1] + 1], sorted[blocks[b][2] + 1], f, r)]])]

\* output[:, start_full:end_full] = sub_out for one (i_sub, j_sub).  Slices
\* are clamped to the array; numpy assigns when the widths agree, repeats a
\* single column over the target, and refuses any other pair of widths.
PlaceBlock(st, sub_out_all, i_sub, j_sub, space_map, n_elem_sub, n_elem_full, n_elem_features) ==
    LET m == GetFlattenedIndex(i_sub, j_sub, n_elem_sub)
        start_sub == m * n_elem_features
        end_sub == (m + 1) * n_elem_features
        sub_out == [r \in 1..Len(sub_out_all) |-> PySlice(sub_out_all[r], start_sub, end_sub)]
        i_full == space_map[i_sub + 1]
        j_full == space_map[j_sub + 1]
        m_full == GetFlattenedIndex(i_full, j_full, n_elem_full)
        start_full == m_full * n_elem_features
        end_full == (m_full + 1) * n_elem_features
        width == Len(st.output[1])
        lo == Min(start_full, width)
        hi == Max(lo, Min(end_full, width))
        w_sub == Len(sub_out[1])
    IN IF w_sub /= hi - lo /\ w_sub /= 1
       THEN [st EXCEPT !.error = "ValueError: could not broadcast"]
       ELSE [st EXCEPT
               !.output = [r \in 1..Len(st.output) |->
                             [c \in 1..width |->
                                 IF c > lo /\ c <= hi
                                 THEN sub_out[r][IF w_sub = 1 THEN 1 ELSE c - lo]
                                 ELSE st.output[r][c]]],
               !.written = st.written \cup {c \in 1..width : c > lo /\ c <= hi}]

RECURSIVE PlaceBlocks(_, _, _, _, _, _, _)
\* The two loops over i_sub and j_sub >= i_sub; an error ends them.
PlaceBlocks(st, pairs, sub_out_all, space_map, n_elem_sub, n_elem_full, n_elem_features) ==
    IF pairs = <<>> \/ st.error /= None THEN st
    ELSE PlaceBlocks(
             PlaceBlock(st, sub_out_all, Head(pairs)[1], Head(pairs)[2], space_map,
                        n_elem_sub, n_elem_full, n_elem_features),
             Tail(pairs), sub_out_all, space_map, n_elem_sub, n_elem_full, n_elem_features)

\* SOAP.get_full_space_output
GetFullSpaceOutput(sub_out_all, sub, full, l_max, n_max, cross) ==
    LET space_map == GetSubToFullMap(sub, full)
        n_features == SoapNumberOfFeatures(full, l_max, n_max, cross)
        n_elem_features == GetNumberOfElementFeatures(l_max, n_max)
        n_points == Len(sub_out_all)
        zeros == [r \in 1..n_points |-> [c \in 1..n_features |-> Zero]]
    IN PlaceBlocks([output |-> zeros, written |-> {}, error |-> None],
                   UpperPairs(Len(sub)), sub_out_all, space_map,
                   Len(sub), Len(full), n_elem_features)

RemapIdle ==
    /\ full_output = <<>>
    /\ written = {}

\* A descriptor over some species and the output of soaplite for a system
\* whose elements all belong to them (create_single has checked that).
RemapInit ==
    /\ remap_pc = "ready"
    /\ \E species \in (SUBSET Elements) \ {{}} :
          /\ atomic_numbers = SortAscending(CHOOSE q \in Orderings(species) : TRUE)
          /\ \E present \in (SUBSET species) \ {{}} : sub_elements \in Orderings(present)
    /\ nmax \in 1..MaxNmax
    /\ lmax \in 0..MaxLmax
    /\ crossover \in BOOLEAN
    /\ \E n_points \in 1..MaxPoints :
          sub_output = SoapliteOutput(sub_elements, GetNumberOfElementFeatures(lmax, nmax),
                                      n_points, crossover)
    /\ RemapIdle

RemapCall ==
    /\ remap_pc = "ready"
    /\ LET st == GetFullSpaceOutput(sub_output, sub_elements, atomic_numbers,
                                    lmax, nmax, crossover)
       IN /\ remap_pc' = IF st.error = None THEN "returned" ELSE "raised"
          /\ full_output' = IF st.error = None THEN st.output ELSE <<>>
          /\ written' = st.written
    /\ UNCHANGED <<atomic_numbers, nmax, lmax, crossover, sub_elements, sub_output>>

(***************************************************************************)
(* MatrixDescriptor: permutation handling, zero padding, feature count.    *)
(***************************************************************************)
\* sort_randomly(self, matrix, sigma=1): describe never passes sigma.
SortRandomlyDefaultSigma == 1

VARIABLES
    md_state,         \* "none" | "built" | "failed": the constructor's outcome
    ctor,             \* the arguments the constructor was given
    n_atoms_max,      \* self.n_atoms_max
    permutation,      \* self.permutation
    flatten,          \* self.flatten
    norm_vector,      \* self.norm_vector: absent (None) or the cached norms
    md_pc,            \* "idle" | "described": a describe call has ended
    matrix_in,        \* describe: the matrix get_matrix returned
    permuted,         \* describe: the array handed to zero_pad, if any
    padded,           \* describe: the array zero_pad returned, if any
    noise_sigma,      \* describe: the sigma of every noise draw of the call
    md_out            \* describe: the value returned or the error raised

matrixVars == <<md_state, ctor, n_atoms_max, permutation, flatten, norm_vector,
                md_pc, matrix_in, permuted, padded, noise_sigma, md_out>>

\* The entries of the matrices of the model.
EntryValues == {0, 1}

\* The eigenvalues np.linalg.eig may return are not computed: any of these.
EigenValueChoices == {-1, 0, 2}

\* get_matrix is the subclass's: a symmetric two-body matrix, one row per atom.
Matrices ==
    UNION {{m \in [1..n -> [1..n -> EntryValues]] :
               \A i, j \in 1..n : m[i][j] = m[j][i]} : n \in 1..MaxAtoms}

RECURSIVE OrdersOfIndices(_)
\* The orders of the indices 0..n-1: index n-1 put at every place of every
\* order of 0..n-2.
OrdersOfIndices(n) ==
    IF n = 0 THEN {<<>>}
    ELSE {SubSeq(q, 1, k - 1) \o <<n - 1>> \o SubSeq(q, k, n - 1) :
             q \in OrdersOfIndices(n - 1), k \in 1..n}

\* The orders of the indices 0..n-1 of an array of n entries.
IndexOrders == [n \in 0..Max(MaxAtoms, MaxSortSize) |-> OrdersOfIndices(n)]

NoSigma == [given |-> FALSE, value |-> 0]

SigmaChoices == {NoSigma} \cup {[given |-> TRUE, value |-> v] : v \in {-1, 0, 2}}

PermutationChoices == {"sorted_l2", "none", "eigenspectrum", "random", "bogus"}

ConstructorCalls ==
    [n_atoms_max : 0..MaxAtoms, permutation : PermutationChoices,
     sigma : SigmaChoices, flatten : BOOLEAN]

NoArray == [set |-> FALSE, ndim |-> 0, data |-> <<>>]

Array(ndim, data) == [set |-> TRUE, ndim |-> ndim, data |-> data]

\* not sigma: None and 0 are false in Python, every other number is true.
NotSigma(sigma) == ~sigma.given \/ sigma.value = 0

Abs(x) == IF x < 0 THEN -x ELSE x

\* np.linalg.norm(matrix, axis=1), each norm kept as its square (the sum of
\* the squares of the row): the order and the equality of norms are those of
\* their squares.
Norms(matrix) ==
    [i \in 1..Len(matrix) |-> SumSeq([j \in 1..Len(matrix[i]) |-> matrix[i][j] * matrix[i][j]])]

\* The index lists (0-based) np.argsort(values)[::-1] may return: values in
\* descending order, equal values in an order numpy does not specify.
ArgsortDescending(values) ==
    {q \in IndexOrders[Len(values)] :
        \A a \in 1..(Len(values) - 1) : values[q[a] + 1] >= values[q[a + 1] + 1]}

\* matrix[indices][:, indices]; an index past the matrix is an IndexError.
TakeRowsAndColumns(matrix, indices) ==
    IF \E a \in 1..Len(indices) : indices[a] >= Len(matrix)
    THEN [ok |-> FALSE, data |-> <<>>, error |-> "IndexError"]
    ELSE [ok |-> TRUE,
          data |-> [a \in 1..Len(indices) |->
                       [b \in 1..Len(indices) |-> matrix[indices[a] + 1][indices[b] + 1]]],
          error |-> None]

\* A sort that reorders the rows and leaves the columns as they were.
SortRowsOnly(matrix) ==
    {[a \in 1..Len(matrix) |-> matrix[sorted_indices[a] + 1]] :
        sorted_indices \in ArgsortDescending(Norms(matrix))}

\* MatrixDescriptor.sort: the matrices it may return.
Sort(matrix) ==
    {TakeRowsAndColumns(matrix, sorted_indices).data :
        sorted_indices \in ArgsortDescending(Norms(matrix))}

\* MatrixDescriptor.get_eigenspectrum: the arrays it may return.
GetEigenspectrum(matrix) ==
    UNION {{[a \in 1..Len(matrix) |-> eigenvalues[sorted_indices[a] + 1]] :
               sorted_indices \in
                   ArgsortDescending([i \in 1..Len(matrix) |-> Abs(eigenvalues[i])])} :
           eigenvalues \in [1..Len(matrix) -> EigenValueChoices]}

\* The index lists np.argsort(np.random.normal(norms, sigma))[::-1] may
\* return: any order of the indices of norms when sigma > 0, the descending
\* order of the norms when sigma = 0; a negative sigma is refused.
NoisyOrders(norms, sigma) ==
    IF sigma > 0 THEN IndexOrders[Len(norms)]
    ELSE IF sigma = 0 THEN ArgsortDescending(norms)
    ELSE {}

\* A cache that is recomputed from the matrix of every call.
NormVectorRecomputed(cached, matrix) == [given |-> TRUE, value |-> Norms(matrix)]

\* MatrixDescriptor._get_norm_vector and the try/except before it: the norms
\* are computed only when self.norm_vector has no len().
NormVectorAfter(cached, matrix) ==
    IF cached.given THEN cached ELSE [given |-> TRUE, value |-> Norms(matrix)]

\* MatrixDescriptor.sort_randomly: the outcomes it may have.
SortRandomly(matrix, cached, sigma) ==
    LET nv == NormVectorAfter(cached, matrix)
    IN IF sigma < 0
       THEN {[ok |-> FALSE, data |-> <<>>, error |-> "ValueError: scale < 0"]}
       ELSE {TakeRowsAndColumns(matrix, indexlist) : indexlist \in NoisyOrders(nv.value, sigma)}

\* A zero padding that adds n_atoms_max entries, whatever the array's size.
ZeroPadFixedWidth(array, max) ==
    LET n_atoms == Len(array.data)
        size == n_atoms + max
    IN [ok |-> TRUE,
        array |-> Array(array.ndim,
                        IF array.ndim = 1
                        THEN [i \in 1..size |-> IF i <= n_atoms THEN array.data[i] ELSE 0]
                        ELSE [i \in 1..size |-> [j \in 1..size |->
                                 IF i <= n_atoms /\ j <= n_atoms THEN array.data[i][j] ELSE 0]]),
        error |-> None]

\* MatrixDescriptor.zero_pad: np.pad(array, [(0, n_atoms_max - n_atoms)] * ndim)
\* adds zeros after the entries of every axis and refuses a negative width.
ZeroPad(array, max) ==
    LET n_atoms == Len(array.data)
        width == max - n_atoms
        size == n_atoms + width
    IN IF width < 0
       THEN [ok |-> FALSE, array |-> NoArray, error |-> "ValueError: negative pad width"]
       ELSE [ok |-> TRUE,
             array |-> Array(array.ndim,
                             IF array.ndim = 1
                             THEN [i \in 1..size |-> IF i <= n_atoms THEN array.data[i] ELSE 0]
                             ELSE [i \in 1..size |-> [j \in 1..size |->
                                      IF i <= n_atoms /\ j <= n_atoms
                                      THEN array.data[i][j] ELSE 0]]),
             error |-> None]

\* ndarray.flatten: the rows one after the other.
Flatten(array) == IF array.ndim = 1 THEN array.data ELSE Concat(array.data)

\* A feature count that forgets the eigenspectrum policy.
NumberOfFeaturesSquare(perm, max) == max * max

\* MatrixDescriptor.get_number_of_features
MatrixNumberOfFeatures(perm, max) ==
    IF perm = "eigenspectrum" THEN max ELSE max * max

\* The permutation step of describe: the arrays it may hand to zero_pad, or
\* the error it raises.
HandlePermutation(matrix, perm, cached) ==
    IF perm = "none" THEN {[ok |-> TRUE, array |-> Array(2, matrix), error |-> None]}
    ELSE IF perm = "sorted_l2"
    THEN {[ok |-> TRUE, array |-> Array(2, sorted), error |-> None] : sorted \in Sort(matrix)}
    ELSE IF perm = "eigenspectrum"
    THEN {[ok |-> TRUE, array |-> Array(1, e), error |-> None] : e \in GetEigenspectrum(matrix)}
    ELSE IF perm = "random"
    THEN {[ok |-> r.ok, array |-> IF r.ok THEN Array(2, r.data) ELSE NoArray, error |-> r.error] :
             r \in SortRandomly(matrix, cached, SortRandomlyDefaultSigma)}
    ELSE {[ok |-> FALSE, array |-> NoArray, error |-> "ValueError: invalid permutation"]}

NoCall ==
    /\ md_pc = "idle"
    /\ matrix_in = <<>>
    /\ permuted = NoArray
    /\ padded = NoArray
    /\ noise_sigma = <<>>
    /\ md_out = [ok |-> FALSE, value |-> <<>>, error |-> None]

MatrixInit ==
    /\ md_state = "none"
    /\ ctor \in ConstructorCalls
    /\ n_atoms_max = 0
    /\ permutation = None
    /\ flatten = FALSE
    /\ norm_vector = [given |-> FALSE, value |-> <<>>]
    /\ NoCall

\* MatrixDescriptor.__init__ raises: no object.
ConstructFail ==
    /\ md_state = "none"
    /\ \/ ctor.n_atoms_max <= 0
       \/ ctor.permutation \notin {"sorted_l2", "none", "eigenspectrum", "random"}
       \/ NotSigma(ctor.sigma) /\ ctor.permutation = "random"
    /\ md_state' = "failed"
    /\ md_out' = [ok |-> FALSE, value |-> <<>>, error |-> "ValueError"]
    /\ UNCHANGED <<ctor, n_atoms_max, permutation, flatten, norm_vector, md_pc,
                   matrix_in, permuted, padded, noise_sigma>>

\* MatrixDescriptor.__init__ returns: sigma is not kept.
Construct ==
    /\ md_state = "none"
    /\ ~(ctor.n_atoms_max <= 0)
    /\ ctor.permutation \in {"sorted_l2", "none", "eigenspectrum", "random"}
    /\ ~(NotSigma(ctor.sigma) /\ ctor.permutation = "random")
    /\ md_state' = "built"
    /\ flatten' = ctor.flatten
    /\ n_atoms_max' = ctor.n_atoms_max
    /\ permutation' = ctor.permutation
    /\ norm_vector' = [given |-> FALSE, value |-> <<>>]
    /\ UNCHANGED <<ctor, md_pc, matrix_in, permuted, padded, noise_sigma, md_out>>

\* MatrixDescriptor.describe on a system whose matrix is `matrix`.
Describe(matrix) ==
    /\ md_state = "built"
    /\ md_pc = "idle"
    /\ md_pc' = "described"
    /\ matrix_in' = matrix
    /\ norm_vector' = IF permutation = "random" THEN NormVectorAfter(norm_vector, matrix)
                      ELSE norm_vector
    /\ noise_sigma' = IF permutation = "random" THEN <<SortRandomlyDefaultSigma>> ELSE <<>>
    /\ \E step \in HandlePermutation(matrix, permutation, norm_vector) :
          IF ~step.ok
          THEN /\ permuted' = NoArray
               /\ padded' = NoArray
               /\ md_out' = [ok |-> FALSE, value |-> <<>>, error |-> step.error]
          ELSE LET pad == ZeroPad(step.array, n_atoms_max)
               IN /\ permuted' = step.array
                  /\ padded' = pad.array
                  /\ md_out' = IF ~pad.ok
                               THEN [ok |-> FALSE, value |-> <<>>, error |-> pad.error]
                               ELSE [ok |-> TRUE,
                                     value |-> IF flatten THEN Flatten(pad.array)
                                               ELSE pad.array.data,
                                     error |-> None]
    /\ UNCHANGED <<md_state, ctor, n_atoms_max, permutation, flatten>>

\* The caller has the outcome of describe; the descriptor is ready again.
DescribeDone ==
    /\ md_pc = "described"
    /\ md_pc' = "idle"
    /\ matrix_in' = <<>>
    /\ permuted' = NoArray
    /\ padded' = NoArray
    /\ noise_sigma' = <<>>
    /\ md_out' = [ok |-> FALSE, value |-> <<>>, error |-> None]
    /\ UNCHANGED <<md_state, ctor, n_atoms_max, permutation, flatten, norm_vector>>

(***************************************************************************)
(* MatrixDescriptor.sort on a matrix and on the same matrix with its atoms *)
(* reordered.                                                              *)
(***************************************************************************)
VARIABLES
    sort_pc,          \* "ready" | "done"
    sort_matrix,      \* the matrix M
    sort_perm,        \* a reordering p of the atoms of M (0-based indices)
    sorted_plain,     \* what sort returned for M
    sorted_permuted   \* what sort returned for M reordered by p

sortVars == <<sort_pc, sort_matrix, sort_perm, sorted_plain, sorted_permuted>>

\* The norms of the rows of the matrix are pairwise distinct.
DistinctNorms(matrix) ==
    LET norms == Norms(matrix)
    IN \A i, j \in 1..Len(matrix) : i /= j => norms[i] /= norms[j]

\* The square matrices sort is applied to: any entries, symmetric or not,
\* the norms of the rows pairwise distinct (numpy does not specify the order
\* argsort gives equal norms).
SortInputs ==
    UNION {{m \in [1..n -> [1..n -> EntryValues]] : DistinctNorms(m)} : n \in 1..MaxSortSize}

SortInit ==
    /\ sort_pc = "ready"
    /\ sort_matrix \in SortInputs
    /\ sort_perm \in IndexOrders[Len(sort_matrix)]
    /\ sorted_plain = <<>>
    /\ sorted_permuted = <<>>

\* sort(M) and sort(M[p][:, p]).
SortBoth ==
    /\ sort_pc = "ready"
    /\ sorted_plain' \in Sort(sort_matrix)
    /\ sorted_permuted' \in Sort(TakeRowsAndColumns(sort_matrix, sort_perm).data)
    /\ sort_pc' = "done"
    /\ UNCHANGED <<sort_matrix, sort_perm>>

(***************************************************************************)
(* The specifications: one per component.  The variables of the other      *)
(* components are parked and never change.                                 *)
(***************************************************************************)
vars == <<createVars, remapVars, matrixVars, sortVars>>

CreateParked ==
    /\ pc = "parked"
    /\ call = [batch |-> FALSE, system |-> <<>>, positions |-> NotGiven, n_jobs |-> 1]
    /\ average = FALSE
    /\ CreateIdle

RemapParked ==
    /\ remap_pc = "parked"
    /\ atomic_numbers = <<>>
    /\ nmax = 1
    /\ lmax = 0
    /\ crossover = TRUE
    /\ sub_elements = <<>>
    /\ sub_output = <<>>
    /\ RemapIdle

MatrixParked ==
    /\ md_state = "parked"
    /\ ctor = [n_atoms_max |-> 0, permutation |-> None, sigma |-> NoSigma, flatten |-> FALSE]
    /\ n_atoms_max = 0
    /\ permutation = None
    /\ flatten = FALSE
    /\ norm_vector = [given |-> FALSE, value |-> <<>>]
    /\ NoCall

SortParked ==
    /\ sort_pc = "parked"
    /\ sort_matrix = <<>>
    /\ sort_perm = <<>>
    /\ sorted_plain = <<>>
    /\ sorted_permuted = <<>>

InitCreate == CreateInit /\ RemapParked /\ MatrixParked /\ SortParked

NextCreate ==
    \/ CreateOne /\ UNCHANGED <<remapVars, matrixVars, sortVars>>
    \/ CreateRefuse /\ UNCHANGED <<remapVars, matrixVars, sortVars>>
    \/ CreateZeroJobs /\ UNCHANGED <<remapVars, matrixVars, sortVars>>
    \/ CreateDispatch /\ UNCHANGED <<remapVars, matrixVars, sortVars>>
    \/ \E c \in 1..MaxJobs : c <= Len(workers) /\ WorkerFinish(c) /\ UNCHANGED <<remapVars, matrixVars, sortVars>>
    \/ CreateJoin /\ UNCHANGED <<remapVars, matrixVars, sortVars>>

SpecCreate == InitCreate /\ [][NextCreate]_vars

InitRemap == RemapInit /\ CreateParked /\ MatrixParked /\ SortParked

NextRemap == RemapCall /\ UNCHANGED <<createVars, matrixVars, sortVars>>

SpecRemap == InitRemap /\ [][NextRemap]_vars

InitMatrix == MatrixInit /\ CreateParked /\ RemapParked /\ SortParked

NextMatrix ==
    \/ ConstructFail /\ UNCHANGED <<createVars, remapVars, sortVars>>
    \/ Construct /\ UNCHANGED <<createVars, remapVars, sortVars>>
    \/ \E matrix \in Matrices : Describe(matrix) /\ UNCHANGED <<createVars, remapVars, sortVars>>
    \/ DescribeDone /\ UNCHANGED <<createVars, remapVars, sortVars>>

SpecMatrix == InitMatrix /\ [][NextMatrix]_vars

InitSort == SortInit /\ CreateParked /\ RemapParked /\ MatrixParked

NextSort == SortBoth /\ UNCHANGED <<createVars, remapVars, matrixVars>>

SpecSort == InitSort /\ [][NextSort]_vars

(***************************************************************************)
(* SOAP.create: the claims.                                                *)
(***************************************************************************)
\* create has formed its chunks.
JobsFormed ==
    /\ call.batch
    /\ call.n_jobs >= 1
    /\ pc \in {"running", "returned"} \/ (pc = "raised" /\ workers /= <<>>)

\* The job indices of a chunk, in the chunk's order.
ChunkIndices(chunk) == [j \in 1..Len(chunk) |-> chunk[j].idx]

\* C1: create partitions the job indices 0..n-1 into exactly n_jobs contiguous
\* chunks in increasing index order, every index in exactly one chunk; the
\* first n mod n_jobs chunks hold floor(n / n_jobs) + 1 jobs and the others
\* floor(n / n_jobs), so the indices of chunk i are fixed by (n, n_jobs, i).
C1_ChunksPartitionJobs ==
    JobsFormed =>
        LET n == Len(call.system)
            c == call.n_jobs
            sizes == [i \in 1..c |-> (n \div c) + (IF i - 1 < n % c THEN 1 ELSE 0)]
        IN /\ Len(jobs) = c
           /\ Concat([i \in 1..Len(jobs) |-> ChunkIndices(jobs[i])]) = [x \in 1..n |-> x - 1]
           /\ \A i \in 1..c : Len(jobs[i]) = sizes[i]
           /\ \A i, j \in 1..c : Len(jobs[i]) - Len(jobs[j]) \in {-1, 0, 1}
           /\ \A i \in 1..c :
                 ChunkIndices(jobs[i])
                     = [x \in 1..sizes[i] |-> SumSeq(SubSeq(sizes, 1, i - 1)) + x - 1]

\* C1's case: three jobs in two chunks, <<0, 1>> and <<2>>.
C1_Witness ==
    /\ JobsFormed
    /\ Len(call.system) = 3
    /\ call.n_jobs = 2
    /\ ChunkIndices(jobs[1]) = <<0, 1>>
    /\ ChunkIndices(jobs[2]) = <<2>>

\* The rows of one single-system call per (system, positions) job, in input
\* order.
SequentialRows ==
    Concat([i \in 1..Len(call.system) |->
               CreateSingle(call.system[i],
                            IF call.positions.given THEN call.positions.value[i] ELSE NotGiven,
                            average).rows])

\* C2: for n_jobs in {1, 2, n}, whatever the order in which the workers
\* finished, the rows create returns for a batch are the rows of the
\* single-system calls concatenated in input order (so n_jobs = 1 and
\* n_jobs > 1 return the same).
C2_BatchRowsInInputOrder ==
    (pc = "returned" /\ call.batch /\ call.n_jobs \in {1, 2, Len(call.system)})
        => result = SequentialRows

\* C2's case: two workers that finished in the reverse order, on two different
\* systems.
C2_Witness ==
    /\ pc = "returned"
    /\ call.batch
    /\ call.n_jobs = 2
    /\ completionOrder = <<2, 1>>
    /\ Len(call.system) = 3
    /\ call.system[1] /= call.system[3]
    /\ Len(result) >= 3
    /\ result = SequentialRows

\* C10: a batch whose positions list is not as long as the list of systems is
\* refused with a ValueError, and no chunk is formed, no output size computed
\* and no worker dispatched.
C10_PositionsMismatchRefused ==
    (/\ pc /= "ready"
     /\ call.batch
     /\ call.positions.given
     /\ Len(call.positions.value) /= Len(call.system))
        => /\ pc = "raised"
           /\ err = "ValueError: positions do not match systems"
           /\ inp = <<>>
           /\ jobs = <<>>
           /\ output_sizes = <<>>
           /\ chunks = <<>>
           /\ workers = <<>>
           /\ completionOrder = <<>>
           /\ result = <<>>

\* C10's case: two systems and one positions entry, refused.
C10_Witness ==
    /\ pc = "raised"
    /\ call.batch
    /\ Len(call.system) = 2
    /\ call.positions.given
    /\ Len(call.positions.value) = 1
    /\ err = "ValueError: positions do not match systems"

\* The positions create_single gets for a job: the job's second argument, or
\* None when create was given no positions.
JobPositions(job) == IF Len(job.args) = 1 THEN NotGiven ELSE job.args[2]

\* The rows one job has by the per-job rule: 1 if averaging, else the atoms of
\* the system when the job has no positions (none given to create, or None as
\* the job's entry), else the job's positions.
RowsPerJob(job, avg) ==
    IF avg THEN 1
    ELSE IF ~JobPositions(job).given THEN job.args[1].natoms
    ELSE Len(JobPositions(job).value)

\* The rows one job has by the rule that looks at create's positions argument
\* only: 1 if averaging, else the atoms of the system when create was given
\* no positions, else the number of positions given for the job (none when the
\* job's entry is None).
RowsPerJobByCreateArgument(job, avg, positions) ==
    IF avg THEN 1
    ELSE IF ~positions.given THEN job.args[1].natoms
    ELSE IF job.args[2].given THEN Len(job.args[2].value) ELSE 0

\* create_single succeeds on every job of the chunk.
ChunkComputes(i_job, avg) == \A j \in 1..Len(i_job) : RunJob(i_job[j], avg).ok

\* The rows create_single produces for the jobs of the chunk.
ChunkRows(i_job, avg) ==
    Concat([j \in 1..Len(i_job) |-> RunJob(i_job[j], avg).rows])

IndexOf(z, numbers) == (CHOOSE i \in 1..Len(numbers) : numbers[i] = z) - 1

\* The block (0-based) of the unordered pair {za, zb} in the layout over the
\* sorted list `numbers`: its place among the pairs i <= j read row by row.
PairBlock(za, zb, numbers) ==
    LET i == IndexOf(Min(za, zb), numbers)
        j == IndexOf(Max(za, zb), numbers)
        pairs == UpperPairs(Len(numbers))
    IN (CHOOSE b \in 1..Len(pairs) : pairs[b] = <<i, j>>) - 1

ElementFeatures == GetNumberOfElementFeatures(lmax, nmax)

\* C3: with crossover, for every i_sub <= j_sub the translated indices satisfy
\* i_full <= j_full, and sub-block m(i_sub, j_sub) (k = number of elements of
\* the system) is copied row for row into full block m(i_full, j_full)
\* (n = number of species), the block of the same pair of atomic numbers.
C3_SubBlocksLandOnTheirPair ==
    (remap_pc = "returned" /\ crossover) =>
        LET k == Len(sub_elements)
            n == Len(atomic_numbers)
            sorted == SortAscending(sub_elements)
            space_map == GetSubToFullMap(sub_elements, atomic_numbers)
        IN \A i_sub, j_sub \in 0..(k - 1) :
              i_sub <= j_sub =>
                  LET i_full == space_map[i_sub + 1]
                      j_full == space_map[j_sub + 1]
                      m == GetFlattenedIndex(i_sub, j_sub, k)
                      m_full == GetFlattenedIndex(i_full, j_full, n)
                  IN /\ i_full <= j_full
                     /\ m = PairBlock(sorted[i_sub + 1], sorted[j_sub + 1], sorted)
                     /\ m_full = PairBlock(sorted[i_sub + 1], sorted[j_sub + 1], atomic_numbers)
                     /\ \A r \in 1..Len(sub_output) : \A f \in 1..ElementFeatures :
                           /\ full_output[r][m_full * ElementFeatures + f]
                                  = sub_output[r][m * ElementFeatures + f]
                           /\ full_output[r][m_full * ElementFeatures + f]
                                  = Entry(sorted[i_sub + 1], sorted[j_sub + 1], f, r)

\* C3's case: species [1, 6, 8] and a system of elements 6 and 1; the
\* sub-blocks 11, 16, 66 are in the full blocks 0, 1, 3 and block 2 is zero.
C3_Witness ==
    /\ remap_pc = "returned"
    /\ crossover
    /\ atomic_numbers = <<1, 6, 8>>
    /\ sub_elements = <<6, 1>>
    /\ full_output[1][0 * ElementFeatures + 1] = Entry(1, 1, 1, 1)
    /\ full_output[1][1 * ElementFeatures + 1] = Entry(1, 6, 1, 1)
    /\ full_output[1][2 * ElementFeatures + 1] = Zero
    /\ full_output[1][3 * ElementFeatures + 1] = Entry(6, 6, 1, 1)

\* The pair of atomic numbers whose block holds column c (1-based) of the full
\* output.
PairOfColumn(c) ==
    LET b == (c - 1) \div ElementFeatures
        ij == UpperPairs(Len(atomic_numbers))[b + 1]
    IN <<atomic_numbers[ij[1] + 1], atomic_numbers[ij[2] + 1]>>

Present(z) == \E i \in 1..Len(sub_elements) : sub_elements[i] = z

\* C4: with crossover, distinct sub-space pairs are written to distinct
\* full-space blocks: the columns written number k * (k + 1) / 2 *
\* elementFeatureCount, and every column of a pair of elements that is not
\* present in the system is zero in every row.
C4_WrittenColumnsConserved ==
    (remap_pc = "returned" /\ crossover) =>
        LET k == Len(sub_elements)
        IN /\ Cardinality(written) = ((k * (k + 1)) \div 2) * ElementFeatures
           /\ \A r \in 1..Len(full_output) : \A c \in 1..Len(full_output[r]) :
                 /\ (~Present(PairOfColumn(c)[1]) \/ ~Present(PairOfColumn(c)[2]))
                        => full_output[r][c] = Zero
                 /\ c \notin written => full_output[r][c] = Zero

\* C4's case: two of three species present, three of the six blocks written.
C4_Witness ==
    /\ remap_pc = "returned"
    /\ crossover
    /\ Len(atomic_numbers) = 3
    /\ Len(sub_elements) = 2
    /\ ElementFeatures = 3
    /\ Cardinality(written) = 9
    /\ \E c \in 1..Len(full_output[1]) : full_output[1][c] = Zero

(***************************************************************************)
(* MatrixDescriptor: the claims.                                           *)
(***************************************************************************)
\* C5: with flatten enabled, every vector describe returns has length
\* get_number_of_features(), which is n_atoms_max under eigenspectrum and
\* n_atoms_max^2 under none, sorted_l2 and random.
C5_DescribeLengthIsFeatureCount ==
    (md_state = "built" /\ flatten /\ md_pc = "described" /\ md_out.ok) =>
        /\ Len(md_out.value) = MatrixNumberOfFeatures(permutation, n_atoms_max)
        /\ permutation = "eigenspectrum" => Len(md_out.value) = n_atoms_max
        /\ permutation \in {"none", "sorted_l2", "random"}
               => Len(md_out.value) = n_atoms_max * n_atoms_max

\* C5's case: the eigenvalues of a one-atom system padded to two features.
C5_Witness ==
    /\ md_state = "built"
    /\ flatten
    /\ md_pc = "described"
    /\ md_out.ok
    /\ permutation = "eigenspectrum"
    /\ n_atoms_max = 2
    /\ Len(matrix_in) = 1
    /\ Len(md_out.value) = 2

\* The entry of an array of ndim axes at the indices ix (all axes alike for a
\* 1D array: only ix[1] is used).
EntryAt(array, ix) ==
    IF array.ndim = 1 THEN array.data[ix[1]] ELSE array.data[ix[1]][ix[2]]

\* The array has `size` entries along every axis.
HasShape(array, size) ==
    /\ Len(array.data) = size
    /\ array.ndim = 2 => \A i \in 1..size : Len(array.data[i]) = size

\* C6: for a 1D or square 2D array A of size n, zero_pad returns an array of
\* size n_atoms_max along every axis whose leading n-sized block is A and
\* whose other entries are zero when n <= n_atoms_max, and raises (returns no
\* array) when n > n_atoms_max.
C6_ZeroPadShapeAndContent ==
    (md_pc = "described" /\ permuted.set) =>
        LET n == Len(permuted.data)
        IN IF n <= n_atoms_max
           THEN /\ padded.set
                /\ padded.ndim = permuted.ndim
                /\ HasShape(padded, n_atoms_max)
                /\ \A i, j \in 1..n_atoms_max :
                      EntryAt(padded, <<i, j>>)
                          = IF i <= n /\ (j <= n \/ permuted.ndim = 1)
                            THEN EntryAt(permuted, <<i, j>>) ELSE 0
           ELSE /\ ~padded.set
                /\ ~md_out.ok
                /\ md_out.error = "ValueError: negative pad width"

\* C6's case: a 1 x 1 matrix holding 1 padded to 2 x 2.
C6_Witness ==
    /\ md_pc = "described"
    /\ permuted = Array(2, <<<<1>>>>)
    /\ n_atoms_max = 2
    /\ padded = Array(2, <<<<1, 0>>, <<0, 0>>>>)

\* C7: for a square matrix M with pairwise distinct row norms and a reordering
\* p of its indices, sort of M reordered by p (rows and columns) returns what
\* sort of M returns: M with one reordering applied to rows and columns, its
\* row norms in strictly descending order.
C7_SortIsPermutationInvariant ==
    (sort_pc = "done" /\ DistinctNorms(sort_matrix)) =>
        LET n == Len(sort_matrix)
            norms == Norms(sorted_plain)
        IN /\ sorted_permuted = sorted_plain
           /\ \E q \in IndexOrders[n] :
                 sorted_plain = [a \in 1..n |-> [b \in 1..n |->
                                    sort_matrix[q[a] + 1][q[b] + 1]]]
           /\ \A a \in 1..(n - 1) : norms[a] > norms[a + 1]

\* C7's case: a 3 x 3 matrix that is not symmetric, the reordering that puts
\* its rows in the opposite order, and a sort that moves rows.
C7_Witness ==
    /\ sort_pc = "done"
    /\ Len(sort_matrix) = 3
    /\ DistinctNorms(sort_matrix)
    /\ sort_matrix[1][2] /= sort_matrix[2][1]
    /\ sort_perm = <<2, 1, 0>>
    /\ sorted_plain /= sort_matrix
    /\ sorted_permuted = sorted_plain

\* sigma is a positive number.
PositiveSigma(sigma) == sigma.given /\ sigma.value > 0

\* C8: constructing a MatrixDescriptor with permutation 'random' and a sigma
\* that is absent, zero or negative fails, and no descriptor is created.
C8_RandomRequiresPositiveSigma ==
    (md_state /= "none" /\ ctor.permutation = "random" /\ ~PositiveSigma(ctor.sigma))
        => md_state = "failed"

\* C9: under the random policy, the standard deviation of the noise added to
\* the norms in a describe call is the sigma the constructor was given (here
\* for a descriptor constructed with a positive sigma).
C9_NoiseUsesConstructorSigma ==
    (/\ md_state = "built"
     /\ permutation = "random"
     /\ PositiveSigma(ctor.sigma)
     /\ md_pc = "described")
        => noise_sigma = <<ctor.sigma.value>>

\* One step as C12 has it: the constructor leaves the cached norm vector
\* unset, the describe call that finds it unset sets it to the norms of the
\* rows of its matrix, and once set no step changes it.
C12_Step ==
    /\ md_state = "none" => ~norm_vector'.given
    /\ (/\ md_state = "built"
        /\ permutation = "random"
        /\ ~norm_vector.given
        /\ md_pc = "idle"
        /\ md_pc' = "described")
           => norm_vector' = [given |-> TRUE, value |-> Norms(matrix_in')]
    /\ norm_vector.given => norm_vector' = norm_vector

\* C12: under the random policy the cached norm vector is unset after
\* construction, is set by the first describe call to the row norms of that
\* call's matrix, and after any later describe calls is still the norms of
\* the first matrix.
C12_NormVectorComputedOnce == [][C12_Step]_vars

\* C12's case: a later describe call on a matrix with other row norms than
\* the ones cached from the first call.
C12_Witness ==
    /\ md_state = "built"
    /\ permutation = "random"
    /\ md_pc = "described"
    /\ norm_vector.given
    /\ Len(norm_vector.value) = Len(matrix_in)
    /\ norm_vector.value /= Norms(matrix_in)

\* C13: under the random policy, after any sequence of describe calls on
\* square matrices of sizes up to n_atoms_max, every call to sort_randomly
\* returns without error a matrix of the size of its input that is the input
\* with one permutation of all its indices applied to rows and columns.
\* The descriptor was constructed with a positive sigma; the matrix of the
\* call and the matrix the cached norms were computed from (the only earlier
\* matrix the descriptor keeps anything of) have at most n_atoms_max rows.
C13_SortRandomlyKeepsEveryAtom ==
    (/\ md_state = "built"
     /\ permutation = "random"
     /\ PositiveSigma(ctor.sigma)
     /\ md_pc = "described"
     /\ Len(matrix_in) <= n_atoms_max
     /\ Len(norm_vector.value) <= n_atoms_max)
        => LET n == Len(matrix_in)
           IN /\ permuted.set
              /\ Len(permuted.data) = n
              /\ \E q \in IndexOrders[n] :
                    permuted.data = [a \in 1..n |-> [b \in 1..n |->
                                        matrix_in[q[a] + 1][q[b] + 1]]]

\* C14: with crossover disabled and a system whose elements all belong to the
\* species, get_full_space_output completes without error, every block it
\* writes lies wholly inside the output width get_number_of_features() =
\* |species| * elementFeatureCount, and the block of each element present is
\* placed at that element's index in the sorted species.
C14_NoCrossoverBlocksAtElementIndex ==
    (remap_pc /= "ready" /\ ~crossover) =>
        LET k == Len(sub_elements)
            n == Len(atomic_numbers)
            width == SoapNumberOfFeatures(atomic_numbers, lmax, nmax, crossover)
            space_map == GetSubToFullMap(sub_elements, atomic_numbers)
        IN /\ remap_pc = "returned"
           /\ width = n * ElementFeatures
           /\ \A i_sub, j_sub \in 0..(k - 1) :
                 i_sub <= j_sub =>
                     (GetFlattenedIndex(space_map[i_sub + 1], space_map[j_sub + 1], n) + 1)
                         * ElementFeatures <= width
           /\ \A e \in 1..k : \A r \in 1..Len(sub_output) : \A f \in 1..ElementFeatures :
                 full_output[r][IndexOf(sub_elements[e], atomic_numbers) * ElementFeatures + f]
                     = Entry(sub_elements[e], sub_elements[e], f, r)

====
